---- MODULE Spec2Model ----
(***************************************************************************)
(* Widget tree, event dispatch, hit-testing, linear layouts and the input  *)
(* loop of the GUI toolkit in src/src/gui.cpp (declarations in             *)
(* src/src/gui.hpp).                                                       *)
(*                                                                         *)
(* A widget is a name of Universe; its fields are the values of the state   *)
(* functions below at that name.  `live` is the set of widgets the          *)
(* application has constructed.  Strings of the program (TextInput text,   *)
(* payload values) are sequences of one-character strings.  An event        *)
(* handler is a callback that records its call and returns.                *)
(***************************************************************************)
EXTENDS Integers, Sequences, FiniteSets

VARIABLES
    live,            \* widgets constructed so far
    id,              \* Widget::id
    parent,          \* Widget::parent (None = nullptr)
    children,        \* Widget::children, in vector order
    x, y,            \* Widget::x, Widget::y (relative to the parent)
    width, height,   \* Widget::width, Widget::height
    visible,         \* Widget::visible
    enabled,         \* Widget::enabled
    layout,          \* Container::layout (NoLayout = nullptr)
    text,            \* TextInput::text
    eventHandlers,   \* Widget::eventHandlers: kind -> handlers in push_back order
    running,         \* Window::running
    sdlWindow,       \* Window::sdlWindow: "null", "window" or "indeterminate"
    renderer,        \* g_context.renderer is not null
    windows,         \* Window::windows, the registry
    g_eventLoopRunning,
    g_sdlInitialized,
    font,            \* g_context.font is not null
    closures,        \* what the handler of each ordinal does when invoked
    loopPc,          \* where Window::runEventLoop stands
    focusedWidget,   \* static of runEventLoop
    inputBuffer,     \* static of runEventLoop
    mouseWasPressed, \* static of runEventLoop
    emitted,         \* events handed to Widget::emit by the running operation
    calls,           \* handler invocations made by the running operation, in order
    drawn,           \* backend draw calls made by the running operation, in order
    pending,         \* the backend's event queue, oldest first
    posted,          \* how many events the backend has queued so far
    pressedSinceUp,  \* history: a left pointer-down was handled after the last left pointer-up
    ret              \* the running operation and what it returned

tree == <<live, id, parent, children>>
geometry == <<x, y, width, height>>
flags == <<visible, enabled, layout>>
backend == <<running, sdlWindow, renderer, windows, g_eventLoopRunning>>
statics == <<focusedWidget, inputBuffer, mouseWasPressed>>
sdl == <<g_sdlInitialized, font>>

program == <<tree, geometry, flags, text, eventHandlers, backend, statics, sdl,
             closures, loopPc, emitted, calls, drawn, ret>>
env == <<pending, posted, pressedSinceUp>>
vars == <<program, env>>

None == "none"

Universe == {"win", "win2", "box", "btn", "txt", "lbl"}

\* The widgets of a window with a container, a button and a text field.
Scene == {"win", "box", "btn", "txt"}

\* The concrete class of each widget.
KindOf(w) ==
    CASE w \in {"win", "win2"} -> "Window"
      [] w = "box" -> "Container"
      [] w = "btn" -> "Button"
      [] w = "txt" -> "TextInput"
      [] OTHER     -> "Label"

\* Widgets the application adds children to.
Parents == {w \in Universe : KindOf(w) \in {"Window", "Container"}}

\* Widgets the application adds to a parent: a Window is the root of its tree.
Addable == {w \in Universe : KindOf(w) # "Window"}

\* The Window objects.
Windows == {w \in Universe : KindOf(w) = "Window"}

\* Widgets whose enabled flag an operation reads.
Buttons == {w \in Universe : KindOf(w) = "Button"}

\* EventType values that the operations of gui.cpp emit.
EventKinds == {"Click", "TextChanged", "KeyPress", "WindowClose"}

\* ---------------------------------------------------------------- construction

DefaultWidth == 100
DefaultHeight == 30
TextInputWidth == 200
WindowWidth == 800
WindowHeight == 600

\* Widget::Widget, TextInput::TextInput, Window::Window: the size a widget has
\* after its constructor ran (Button and Label built with empty text keep the
\* base size).
CtorWidth(w) ==
    CASE KindOf(w) = "TextInput" -> TextInputWidth
      [] KindOf(w) = "Window"    -> WindowWidth
      [] OTHER                   -> DefaultWidth

CtorHeight(w) ==
    CASE KindOf(w) = "Window" -> WindowHeight
      [] OTHER                -> DefaultHeight

\* Ids a widget may be constructed with; a Window always passes "window".
Ids == {"", "a"}

CtorIds(w) == IF KindOf(w) = "Window" THEN {"window"} ELSE Ids

NoOp == [op |-> "none"]

\* A null std::unique_ptr<Layout>.
NoLayout == [kind |-> "none"]

\* Window::windows after the windows among ws were constructed.
WindowsOf(ws) ==
    (IF "win" \in ws THEN <<"win">> ELSE <<>>)
        \o (IF "win2" \in ws THEN <<"win2">> ELSE <<>>)

\* The state after the widgets of `ws` were constructed with the ids `ids`,
\* the backend initialised and a font found.  Window::Window does not
\* initialise sdlWindow: a window's pointer starts null or as any other value.
Constructed(ws, ids) ==
    /\ live = ws
    /\ id = ids
    /\ parent = [w \in Universe |-> None]
    /\ children = [w \in Universe |-> <<>>]
    /\ x = [w \in Universe |-> 0]
    /\ y = [w \in Universe |-> 0]
    /\ width = [w \in Universe |-> CtorWidth(w)]
    /\ height = [w \in Universe |-> CtorHeight(w)]
    /\ visible = [w \in Universe |-> TRUE]
    /\ enabled = [w \in Universe |-> TRUE]
    /\ layout = [w \in Universe |-> NoLayout]
    /\ text = [w \in Universe |-> <<>>]
    /\ eventHandlers = [w \in Universe |-> [k \in EventKinds |-> <<>>]]
    /\ running = [w \in Universe |-> FALSE]
    /\ sdlWindow \in [Universe -> {"null", "indeterminate"}]
    /\ \A w \in Universe :
          (w \notin ws \/ KindOf(w) # "Window") => sdlWindow[w] = "null"
    /\ renderer = FALSE
    /\ g_sdlInitialized = (WindowsOf(ws) # <<>>)
    /\ font = (WindowsOf(ws) # <<>>)
    /\ closures = <<>>
    /\ loopPc = "out"
    /\ drawn = <<>>
    /\ pending = <<>>
    /\ posted = 0
    /\ pressedSinceUp = FALSE
    /\ windows = WindowsOf(ws)
    /\ g_eventLoopRunning = FALSE
    /\ focusedWidget = None
    /\ inputBuffer = <<>>
    /\ mouseWasPressed = FALSE
    /\ emitted = <<>>
    /\ calls = <<>>
    /\ ret = NoOp

DefaultIds == [w \in Universe |-> IF KindOf(w) = "Window" THEN "window" ELSE ""]

\* ---------------------------------------------------------------- tree helpers

Range(s) == {s[i] : i \in 1..Len(s)}

\* c is held in some child list, i.e. its unique_ptr was moved into a parent.
Owned(c) == \E q \in Universe : c \in Range(children[q])

\* The widgets met when following parent links from w (w included); the walk
\* stops at nullptr or at a widget already met.
RECURSIVE Climb(_, _)
Climb(w, seen) ==
    IF w = None \/ w \in seen THEN seen ELSE Climb(parent[w], seen \cup {w})

AncestorsOrSelf(w) == Climb(w, {})

\* ---------------------------------------------------------------- Widget::add

\* A slip of Widget::add: the child is stored, its parent pointer is not set.
Add_NoParentLink(p, c) ==
    /\ p \in live /\ c \in live
    /\ ~Owned(c)
    /\ children' = [children EXCEPT ![p] = Append(@, c)]
    /\ emitted' = <<>> /\ calls' = <<>> /\ drawn' = <<>> /\ ret' = NoOp
    /\ live' = live /\ id' = id /\ parent' = parent
    /\ UNCHANGED <<sdl, closures, loopPc, geometry, flags, text, eventHandlers, backend, statics>>

\* The room that the widgets of cs take along one axis of a layout.
RECURSIVE Stacked(_, _, _)
Stacked(cs, extent, spacing) ==
    IF cs = <<>> THEN 0
    ELSE extent[Head(cs)] + spacing + Stacked(Tail(cs), extent, spacing)

\* A slip of Widget::add: the parent's stored layout places the new child
\* after its siblings.
Add_Relayout(p, c) ==
    /\ p \in live /\ c \in live
    /\ ~Owned(c)
    /\ parent' = [parent EXCEPT ![c] = p]
    /\ children' = [children EXCEPT ![p] = Append(@, c)]
    /\ emitted' = <<>> /\ calls' = <<>> /\ drawn' = <<>> /\ ret' = NoOp
    /\ live' = live /\ id' = id
    /\ LET lay == layout[p]
       IN  IF lay.kind = "Vertical"
           THEN /\ x' = [x EXCEPT ![c] = lay.padding]
                /\ y' = [y EXCEPT ![c] = lay.padding
                                         + Stacked(children[p], height, lay.spacing)]
           ELSE IF lay.kind = "Horizontal"
           THEN /\ y' = [y EXCEPT ![c] = lay.padding]
                /\ x' = [x EXCEPT ![c] = lay.padding
                                         + Stacked(children[p], width, lay.spacing)]
           ELSE UNCHANGED <<x, y>>
    /\ UNCHANGED <<width, height>>
    /\ UNCHANGED <<sdl, closures, loopPc, flags, text, eventHandlers, backend, statics>>

\* p.add(std::move(c)).  The argument is a std::unique_ptr, so the caller can
\* only pass a widget that no child list holds.  The code checks nothing else.
Add(p, c) ==
    /\ p \in live /\ c \in live
    /\ ~Owned(c)
    /\ parent' = [parent EXCEPT ![c] = p]
    /\ children' = [children EXCEPT ![p] = Append(@, c)]
    /\ emitted' = <<>> /\ calls' = <<>> /\ drawn' = <<>> /\ ret' = NoOp
    /\ live' = live /\ id' = id
    /\ UNCHANGED <<sdl, closures, loopPc, geometry, flags, text, eventHandlers, backend, statics>>

\* add as a caller that keeps the tree a tree uses it: c is neither p nor an
\* ancestor of p.
AddTree(p, c) ==
    /\ c \notin AncestorsOrSelf(p)
    /\ Add(p, c)

\* ---------------------------------------------------------------- Widget::find

\* A slip of Widget::find: the children are searched before the receiver.
RECURSIVE find_ChildrenFirst(_, _), find_ChildrenFirstIn(_, _, _)
find_ChildrenFirst(w, i) ==
    LET f == find_ChildrenFirstIn(children[w], 1, i)
    IN  IF f # None THEN f ELSE IF id[w] = i THEN w ELSE None

find_ChildrenFirstIn(cs, k, i) ==
    IF k > Len(cs) THEN None
    ELSE LET f == find_ChildrenFirst(cs[k], i)
         IN  IF f # None THEN f ELSE find_ChildrenFirstIn(cs, k + 1, i)

RECURSIVE find(_, _), findInChildren(_, _, _)

\* w.find(i): the receiver if its id matches, else the first non-null result
\* of find on the children in vector order, else nullptr.
find(w, i) ==
    IF id[w] = i THEN w ELSE findInChildren(children[w], 1, i)

\* The for loop of Widget::find from the k-th child on.
findInChildren(cs, k, i) ==
    IF k > Len(cs) THEN None
    ELSE LET found == find(cs[k], i)
         IN  IF found # None THEN found ELSE findInChildren(cs, k + 1, i)

\* Ids looked up: those widgets are built with, and the id of a Window.
FindArgs == Ids \cup {"window"}

\* A call w.find(i) by the application.
Find(w, i) ==
    /\ w \in live
    /\ ret' = [op |-> "find", recv |-> w, arg |-> i, result |-> find(w, i)]
    /\ emitted' = <<>> /\ calls' = <<>> /\ drawn' = <<>>
    /\ UNCHANGED <<sdl, closures, loopPc, tree, geometry, flags, text, eventHandlers, backend, statics>>

\* ---------------------------------------------------------------- setters

\* w.setEnabled(b)
SetEnabled(w, b) ==
    /\ w \in live
    /\ enabled' = [enabled EXCEPT ![w] = b]
    /\ emitted' = <<>> /\ calls' = <<>> /\ drawn' = <<>> /\ ret' = NoOp
    /\ visible' = visible /\ layout' = layout
    /\ UNCHANGED <<sdl, closures, loopPc, tree, geometry, text, eventHandlers, backend, statics>>

\* ---------------------------------------------------------------- Widget::on, Widget::emit

MaxHandlers == 2

\* The handlers registered so far.  A handler is the closure passed to one
\* call of on, named by the ordinal of that call; invoking it returns.
AllHandlers ==
    UNION {Range(eventHandlers[w][k]) : w \in Universe, k \in EventKinds}

\* w.on(k, handler): push_back on the list of kind k.  body says what the
\* closure does when invoked: "return" only returns, "stop" calls
\* Window::stopEventLoop() and returns.
Register(w, k, body) ==
    /\ w \in live
    /\ Cardinality(AllHandlers) < MaxHandlers
    /\ eventHandlers' =
          [eventHandlers EXCEPT ![w][k] = Append(@, Cardinality(AllHandlers) + 1)]
    /\ closures' = Append(closures, body)
    /\ emitted' = <<>> /\ calls' = <<>> /\ drawn' = <<>> /\ ret' = NoOp
    /\ UNCHANGED <<sdl, loopPc, tree, geometry, flags, text, backend, statics>>

\* w.on(k, handler) with a handler that only returns.
On(w, k) == Register(w, k, "return")

\* The for loop of Widget::emit: each handler of the event's kind on w is
\* called with the event, in vector order.
RunHandlers(w, event) ==
    [i \in 1..Len(eventHandlers[w][event.type]) |->
        [handler |-> eventHandlers[w][event.type][i], event |-> event]]

\* A slip of Widget::emit: WindowClose bubbles like every other kind.
RECURSIVE emit_AlwaysBubbles(_, _)
emit_AlwaysBubbles(w, event) ==
    RunHandlers(w, event)
        \o (IF parent[w] # None THEN emit_AlwaysBubbles(parent[w], event) ELSE <<>>)

\* A slip of Widget::emit: the parent is handed an event whose source is
\* the widget that passes it on.
RECURSIVE emit_Resourced(_, _)
emit_Resourced(w, event) ==
    RunHandlers(w, event)
        \o (IF parent[w] # None /\ event.type # "WindowClose"
            THEN emit_Resourced(parent[w], [event EXCEPT !.source = w])
            ELSE <<>>)

\* w.emit(event): the handler invocations it makes, in order.
RECURSIVE emit(_, _)
emit(w, event) ==
    RunHandlers(w, event)
        \o (IF parent[w] # None /\ event.type # "WindowClose"
            THEN emit(parent[w], event)
            ELSE <<>>)

\* ---------------------------------------------------------------- emitting operations

\* Window::stopEventLoop(): the running flags after it, given the flags run
\* before it.  Every entry of the registry is written.
stopEventLoop(run) ==
    [w \in Universe |-> IF w \in Range(windows) THEN FALSE ELSE run[w]]

\* One of the handler invocations cs calls Window::stopEventLoop().
Stops(cs) == \E i \in 1..Len(cs) : closures[cs[i].handler] = "stop"

\* The backend state after the handler invocations cs ran on the running
\* flags run.
AfterHandlers(cs, run) ==
    /\ running' = IF Stops(cs) THEN stopEventLoop(run) ELSE run
    /\ g_eventLoopRunning' = (g_eventLoopRunning /\ ~Stops(cs))
    /\ UNCHANGED <<sdlWindow, renderer, windows>>

\* What an operation emitted and which handlers that called.
Quiet == [emitted |-> <<>>, calls |-> <<>>]

Emitting(w, event) ==
    [emitted |-> <<[on |-> w, event |-> event]>>, calls |-> emit(w, event)]

\* A slip of Button::click: the enabled flag is not consulted.
click_IgnoresEnabled(b) ==
    Emitting(b, [type |-> "Click", source |-> b, data |-> {}])

\* b.click(): nothing when the button is disabled, else one Click event with
\* the button as source and an empty payload.
click(b) ==
    IF ~enabled[b]
    THEN Quiet
    ELSE Emitting(b, [type |-> "Click", source |-> b, data |-> {}])

\* A call b.click() by the application.
Click(b) ==
    /\ b \in live /\ KindOf(b) = "Button"
    /\ emitted' = click(b).emitted
    /\ calls' = click(b).calls
    /\ drawn' = <<>>
    /\ ret' = [op |-> "click", recv |-> b]
    /\ AfterHandlers(calls', running)
    /\ UNCHANGED <<sdl, closures, loopPc, tree, geometry, flags, text, eventHandlers, statics>>

\* A slip of TextInput::setText: an unchanged text is not announced.
setText_OnlyOnChange(t, s) ==
    IF text[t] = s
    THEN [text |-> text, emitted |-> <<>>, calls |-> <<>>]
    ELSE [text |-> [text EXCEPT ![t] = s],
          emitted |-> Emitting(t, [type |-> "TextChanged", source |-> t,
                                   data |-> {<<"text", s>>}]).emitted,
          calls |-> Emitting(t, [type |-> "TextChanged", source |-> t,
                                 data |-> {<<"text", s>>}]).calls]

\* t.setText(s): stores s, then emits TextChanged with payload {"text": s}.
setText(t, s) ==
    LET out == Emitting(t, [type |-> "TextChanged", source |-> t,
                            data |-> {<<"text", s>>}])
    IN  [text |-> [text EXCEPT ![t] = s],
         emitted |-> out.emitted,
         calls |-> out.calls]

\* Texts the application passes to TextInput::setText.
Texts == {<<>>, <<"a">>}

\* A call t.setText(s) by the application.
SetText(t, s) ==
    /\ t \in live /\ KindOf(t) = "TextInput"
    /\ text' = setText(t, s).text
    /\ emitted' = setText(t, s).emitted
    /\ calls' = setText(t, s).calls
    /\ drawn' = <<>>
    /\ ret' = [op |-> "setText", setText |-> <<[recv |-> t, arg |-> s, old |-> text[t]]>>]
    /\ AfterHandlers(calls', running)
    /\ UNCHANGED <<sdl, closures, loopPc, tree, geometry, flags, eventHandlers, statics>>

\* A slip of Window::close: closing the last running window also clears the
\* process-wide flag.
Close_EndsLoopWhenLast(w) ==
    /\ w \in live /\ KindOf(w) = "Window"
    /\ LET out == Emitting(w, [type |-> "WindowClose", source |-> w, data |-> {}])
       IN  emitted' = out.emitted /\ calls' = out.calls
    /\ drawn' = <<>>
    /\ ret' = [op |-> "close", recv |-> w]
    /\ running' = IF Stops(calls') THEN stopEventLoop(running)
                  ELSE [running EXCEPT ![w] = FALSE]
    /\ g_eventLoopRunning' =
          /\ g_eventLoopRunning /\ ~Stops(calls')
          /\ \E v \in Range(windows) \ {w} : running[v]
    /\ UNCHANGED <<sdlWindow, renderer, windows>>
    /\ UNCHANGED <<sdl, closures, loopPc, tree, geometry, flags, text, eventHandlers, statics>>

\* w.close(): running = false, then one WindowClose event on the window.
Close(w) ==
    /\ w \in live /\ KindOf(w) = "Window"
    /\ LET out == Emitting(w, [type |-> "WindowClose", source |-> w, data |-> {}])
       IN  emitted' = out.emitted /\ calls' = out.calls
    /\ drawn' = <<>>
    /\ ret' = [op |-> "close", recv |-> w]
    /\ AfterHandlers(calls', [running EXCEPT ![w] = FALSE])
    /\ UNCHANGED <<sdl, closures, loopPc, tree, geometry, flags, text, eventHandlers, statics>>

\* A widget class calls its protected emit with an event of kind k that names
\* the widget as source and carries no payload.
Emit(w, k) ==
    /\ w \in live
    /\ LET out == Emitting(w, [type |-> k, source |-> w, data |-> {}])
       IN  emitted' = out.emitted /\ calls' = out.calls
    /\ drawn' = <<>>
    /\ ret' = [op |-> "emit", recv |-> w]
    /\ AfterHandlers(calls', running)
    /\ UNCHANGED <<sdl, closures, loopPc, tree, geometry, flags, text, eventHandlers, statics>>

\* ---------------------------------------------------------------- geometry setters

\* w.setPosition(px, py)
SetPosition(w, px, py) ==
    /\ w \in live
    /\ x' = [x EXCEPT ![w] = px]
    /\ y' = [y EXCEPT ![w] = py]
    /\ emitted' = <<>> /\ calls' = <<>> /\ drawn' = <<>> /\ ret' = NoOp
    /\ UNCHANGED <<width, height>>
    /\ UNCHANGED <<sdl, closures, loopPc, tree, flags, text, eventHandlers, backend, statics>>

\* w.setSize(sw, sh)
SetSize(w, sw, sh) ==
    /\ w \in live
    /\ width' = [width EXCEPT ![w] = sw]
    /\ height' = [height EXCEPT ![w] = sh]
    /\ emitted' = <<>> /\ calls' = <<>> /\ drawn' = <<>> /\ ret' = NoOp
    /\ UNCHANGED <<x, y>>
    /\ UNCHANGED <<sdl, closures, loopPc, tree, flags, text, eventHandlers, backend, statics>>

\* w.setVisible(b)
SetVisible(w, b) ==
    /\ w \in live
    /\ visible' = [visible EXCEPT ![w] = b]
    /\ emitted' = <<>> /\ calls' = <<>> /\ drawn' = <<>> /\ ret' = NoOp
    /\ enabled' = enabled /\ layout' = layout
    /\ UNCHANGED <<sdl, closures, loopPc, tree, geometry, text, eventHandlers, backend, statics>>

\* ---------------------------------------------------------------- layouts

\* The loop of VerticalLayout::apply from child k on; pos holds the x and y
\* fields of all widgets.
RECURSIVE VerticalLoop(_, _, _, _, _)
VerticalLoop(cs, k, lay, currentY, pos) ==
    IF k > Len(cs) THEN pos
    ELSE VerticalLoop(cs, k + 1, lay, currentY + height[cs[k]] + lay.spacing,
                      [x |-> [pos.x EXCEPT ![cs[k]] = lay.padding],
                       y |-> [pos.y EXCEPT ![cs[k]] = currentY]])

\* A slip of VerticalLayout::apply: invisible children take no room.
VerticalLayoutApply_SkipsHidden(container, lay, pos) ==
    VerticalLoop(SelectSeq(children[container], LAMBDA c : visible[c]),
                 1, lay, lay.padding, pos)

\* VerticalLayout(spacing, padding).apply(container)
VerticalLayoutApply(container, lay, pos) ==
    VerticalLoop(children[container], 1, lay, lay.padding, pos)

\* The loop of HorizontalLayout::apply from child k on.
RECURSIVE HorizontalLoop(_, _, _, _, _)
HorizontalLoop(cs, k, lay, currentX, pos) ==
    IF k > Len(cs) THEN pos
    ELSE HorizontalLoop(cs, k + 1, lay, currentX + width[cs[k]] + lay.spacing,
                        [x |-> [pos.x EXCEPT ![cs[k]] = currentX],
                         y |-> [pos.y EXCEPT ![cs[k]] = lay.padding]])

\* HorizontalLayout(spacing, padding).apply(container)
HorizontalLayoutApply(container, lay, pos) ==
    HorizontalLoop(children[container], 1, lay, lay.padding, pos)

\* layout->apply(container): the virtual call.
LayoutApply(container, lay, pos) ==
    IF lay.kind = "Vertical" THEN VerticalLayoutApply(container, lay, pos)
    ELSE HorizontalLayoutApply(container, lay, pos)

\* c.setLayout(std::move(lay)): the layout is stored and, unless null, applied.
SetLayout(c, lay) ==
    /\ c \in live /\ KindOf(c) = "Container"
    /\ layout' = [layout EXCEPT ![c] = lay]
    /\ LET pos == IF lay.kind # "none"
                  THEN LayoutApply(c, lay, [x |-> x, y |-> y])
                  ELSE [x |-> x, y |-> y]
       IN  x' = pos.x /\ y' = pos.y
    /\ emitted' = <<>> /\ calls' = <<>> /\ drawn' = <<>>
    /\ ret' = [op |-> "setLayout", recv |-> c, layout |-> lay]
    /\ UNCHANGED <<width, height, visible, enabled>>
    /\ UNCHANGED <<sdl, closures, loopPc, tree, text, eventHandlers, backend, statics>>

\* ---------------------------------------------------------------- Window::findWidgetAt

\* The while loop that adds the offsets of p and of its ancestors to acc.
RECURSIVE AddOffsets(_, _, _)
AddOffsets(p, acc, offset) ==
    IF p = None THEN acc ELSE AddOffsets(parent[p], acc + offset[p], offset)

\* A slip of findWidgetAt: children are searched in insertion order.
RECURSIVE findWidgetAt_FirstChildWins(_, _, _), findAt_FirstChildWinsIn(_, _, _, _)
findWidgetAt_FirstChildWins(root, px, py) ==
    IF root = None \/ ~visible[root] THEN None
    ELSE LET absX == AddOffsets(parent[root], x[root], x)
             absY == AddOffsets(parent[root], y[root], y)
             found == findAt_FirstChildWinsIn(children[root], 1, px, py)
         IN  IF found # None THEN found
             ELSE IF /\ px >= absX /\ px < absX + width[root]
                     /\ py >= absY /\ py < absY + height[root]
                  THEN root
                  ELSE None

findAt_FirstChildWinsIn(cs, k, px, py) ==
    IF k > Len(cs) THEN None
    ELSE LET found == findWidgetAt_FirstChildWins(cs[k], px, py)
         IN  IF found # None THEN found
             ELSE findAt_FirstChildWinsIn(cs, k + 1, px, py)

\* A slip of findWidgetAt: the widget itself is tested before its children.
RECURSIVE findWidgetAt_SelfFirst(_, _, _), findAt_SelfFirstIn(_, _, _, _)
findWidgetAt_SelfFirst(root, px, py) ==
    IF root = None \/ ~visible[root] THEN None
    ELSE LET absX == AddOffsets(parent[root], x[root], x)
             absY == AddOffsets(parent[root], y[root], y)
         IN  IF /\ px >= absX /\ px < absX + width[root]
                /\ py >= absY /\ py < absY + height[root]
             THEN root
             ELSE findAt_SelfFirstIn(children[root], Len(children[root]), px, py)

findAt_SelfFirstIn(cs, k, px, py) ==
    IF k = 0 THEN None
    ELSE LET found == findWidgetAt_SelfFirst(cs[k], px, py)
         IN  IF found # None THEN found
             ELSE findAt_SelfFirstIn(cs, k - 1, px, py)

\* A slip of findWidgetAt: only the root of the search is tested for
\* visibility.
RECURSIVE findWidgetAt_SeesHidden(_, _, _, _), findAt_SeesHiddenIn(_, _, _, _)
findWidgetAt_SeesHidden(root, px, py, top) ==
    IF root = None \/ (top /\ ~visible[root]) THEN None
    ELSE LET absX == AddOffsets(parent[root], x[root], x)
             absY == AddOffsets(parent[root], y[root], y)
             found == findAt_SeesHiddenIn(children[root], Len(children[root]), px, py)
         IN  IF found # None THEN found
             ELSE IF /\ px >= absX /\ px < absX + width[root]
                     /\ py >= absY /\ py < absY + height[root]
                  THEN root
                  ELSE None

findAt_SeesHiddenIn(cs, k, px, py) ==
    IF k = 0 THEN None
    ELSE LET found == findWidgetAt_SeesHidden(cs[k], px, py, FALSE)
         IN  IF found # None THEN found
             ELSE findAt_SeesHiddenIn(cs, k - 1, px, py)

findWidgetAt_HiddenChildren(root, px, py) ==
    findWidgetAt_SeesHidden(root, px, py, TRUE)

RECURSIVE findWidgetAt(_, _, _), findAtInChildren(_, _, _, _)

\* Window::findWidgetAt(root, px, py): nullptr for a null or invisible root;
\* else the first non-null result among the children, last child first;
\* else root when the point is in root's absolute box; else nullptr.
findWidgetAt(root, px, py) ==
    IF root = None \/ ~visible[root] THEN None
    ELSE LET absX == AddOffsets(parent[root], x[root], x)
             absY == AddOffsets(parent[root], y[root], y)
             found == findAtInChildren(children[root], Len(children[root]), px, py)
         IN  IF found # None THEN found
             ELSE IF /\ px >= absX /\ px < absX + width[root]
                     /\ py >= absY /\ py < absY + height[root]
                  THEN root
                  ELSE None

\* The reverse-iterator loop of findWidgetAt from the k-th child down.
findAtInChildren(cs, k, px, py) ==
    IF k = 0 THEN None
    ELSE LET found == findWidgetAt(cs[k], px, py)
         IN  IF found # None THEN found
             ELSE findAtInChildren(cs, k - 1, px, py)

\* ---------------------------------------------------------------- render

\* drawText(t, ...) for widget w: nothing without a font or for an empty text.
drawText(w, t) ==
    IF ~font \/ t = <<>> THEN <<>> ELSE <<[call |-> "text", widget |-> w]>>

\* Button::render, Label::render and TextInput::render.  The texts of
\* buttons and labels and the placeholder of a text input are constructor
\* arguments, here the stored text[w].
LeafRender(w) ==
    IF ~visible[w] THEN <<>>
    ELSE IF KindOf(w) = "Label" THEN drawText(w, text[w])
    ELSE <<[call |-> "fillRect", widget |-> w],
           [call |-> "drawRect", widget |-> w]>> \o drawText(w, text[w])

\* w.render(), the virtual call, with rend saying whether g_context.renderer
\* is set: the backend calls it makes, in order.  Window::render returns at
\* once without a renderer and does not look at the window's visible flag;
\* Container::render returns at once when invisible and draws nothing itself.
RECURSIVE render(_, _), renderChildren(_, _, _)
render(w, rend) ==
    IF KindOf(w) = "Window"
    THEN IF ~rend THEN <<>>
         ELSE <<[call |-> "clear", widget |-> w]>>
                  \o renderChildren(children[w], 1, rend)
                  \o <<[call |-> "present", widget |-> w]>>
    ELSE IF KindOf(w) = "Container"
    THEN IF ~visible[w] THEN <<>>
         ELSE renderChildren(children[w], 1, rend)
    ELSE LeafRender(w)

\* The loop over children of Window::render and Container::render.
renderChildren(cs, k, rend) ==
    IF k > Len(cs) THEN <<>>
    ELSE render(cs[k], rend) \o renderChildren(cs, k + 1, rend)

\* A call w.render() by the application.
Render(w) ==
    /\ w \in live
    /\ drawn' = render(w, renderer)
    /\ emitted' = <<>> /\ calls' = <<>>
    /\ ret' = [op |-> "render", recv |-> w]
    /\ UNCHANGED <<tree, geometry, flags, text, eventHandlers, backend, statics,
                   sdl, closures, loopPc>>

\* ---------------------------------------------------------------- Window::show, Window::runEventLoop

\* w.show().  windowOk and rendererOk say whether SDL_CreateWindow and
\* SDL_CreateRenderer return a handle; a null handle makes show throw.  The
\* backend window is created only when sdlWindow reads as null; created says
\* whether SDL_CreateWindow returned a window.  A show that does not throw
\* sets running and calls render.
Show(w, windowOk, rendererOk) ==
    /\ w \in live /\ KindOf(w) = "Window"
    /\ IF sdlWindow[w] # "null"
       THEN /\ running' = [running EXCEPT ![w] = TRUE]
            /\ UNCHANGED <<sdlWindow, renderer>>
            /\ ret' = [op |-> "show", recv |-> w, threw |-> FALSE, created |-> FALSE]
       ELSE IF ~windowOk
       THEN /\ UNCHANGED <<running, sdlWindow, renderer>>
            /\ ret' = [op |-> "show", recv |-> w, threw |-> TRUE, created |-> FALSE]
       ELSE /\ sdlWindow' = [sdlWindow EXCEPT ![w] = "window"]
            /\ renderer' = rendererOk
            /\ running' = IF rendererOk THEN [running EXCEPT ![w] = TRUE] ELSE running
            /\ ret' = [op |-> "show", recv |-> w, threw |-> ~rendererOk,
                       created |-> TRUE]
    /\ emitted' = <<>> /\ calls' = <<>>
    /\ UNCHANGED <<windows, g_eventLoopRunning>>
    /\ UNCHANGED <<sdl, closures, loopPc, tree, geometry, flags, text, eventHandlers, statics>>
    /\ drawn' = IF ret'.threw THEN <<>> ELSE render(w, renderer)'

\* Window::runEventLoop is entered: the flag is set, the loop polls.
EnterEventLoop ==
    /\ loopPc = "out"
    /\ g_eventLoopRunning' = TRUE
    /\ loopPc' = "polling"
    /\ emitted' = <<>> /\ calls' = <<>> /\ drawn' = <<>> /\ ret' = [op |-> "runEventLoop"]
    /\ UNCHANGED <<running, sdlWindow, renderer, windows>>
    /\ UNCHANGED <<sdl, closures, tree, geometry, flags, text, eventHandlers, statics>>

\* The loop is polling and the polled event carries the id of tw's backend
\* window: tw is the targetWindow.
Targets(tw) ==
    /\ loopPc = "polling"
    /\ tw \in Range(windows) /\ tw \in live
    /\ sdlWindow[tw] = "window"

\* case SDL_MOUSEBUTTONDOWN
MouseButtonDown(tw, left, px, py) ==
    /\ Targets(tw)
    /\ IF left
       THEN LET clickedWidget == findWidgetAt(tw, px, py)
            IN  /\ mouseWasPressed' = TRUE
                /\ IF clickedWidget # None /\ KindOf(clickedWidget) = "TextInput"
                   THEN /\ focusedWidget' = clickedWidget
                        /\ inputBuffer' = text[clickedWidget]
                   ELSE /\ focusedWidget' = None
                        /\ inputBuffer' = inputBuffer
       ELSE UNCHANGED statics
    /\ emitted' = <<>> /\ calls' = <<>> /\ drawn' = <<>>
    /\ ret' = [op |-> "mouseDown", win |-> tw, left |-> left, x |-> px, y |-> py]
    /\ UNCHANGED <<sdl, closures, loopPc, tree, geometry, flags, text, eventHandlers, backend>>

\* A slip of case SDL_MOUSEBUTTONUP: the test of mouseWasPressed is missing.
MouseButtonUp_NoPressCheck(tw, left, px, py) ==
    /\ Targets(tw)
    /\ IF left
       THEN LET clickedWidget == findWidgetAt(tw, px, py)
                button == IF clickedWidget # None /\ KindOf(clickedWidget) = "Button"
                          THEN clickedWidget ELSE None
            IN  /\ mouseWasPressed' = FALSE
                /\ emitted' = IF button # None THEN click(button).emitted ELSE <<>>
                /\ calls' = IF button # None THEN click(button).calls ELSE <<>>
                /\ ret' = [op |-> "mouseUp", win |-> tw, left |-> left,
                           x |-> px, y |-> py, clicked |-> button]
       ELSE /\ mouseWasPressed' = mouseWasPressed
            /\ emitted' = <<>> /\ calls' = <<>>
            /\ ret' = [op |-> "mouseUp", win |-> tw, left |-> left,
                       x |-> px, y |-> py, clicked |-> None]
    /\ drawn' = <<>>
    /\ AfterHandlers(calls', running)
    /\ UNCHANGED <<focusedWidget, inputBuffer>>
    /\ UNCHANGED <<sdl, closures, loopPc, tree, geometry, flags, text, eventHandlers>>

\* case SDL_MOUSEBUTTONUP
MouseButtonUp(tw, left, px, py) ==
    /\ Targets(tw)
    /\ IF left /\ mouseWasPressed
       THEN LET clickedWidget == findWidgetAt(tw, px, py)
                button == IF clickedWidget # None /\ KindOf(clickedWidget) = "Button"
                          THEN clickedWidget ELSE None
            IN  /\ mouseWasPressed' = FALSE
                /\ emitted' = IF button # None THEN click(button).emitted ELSE <<>>
                /\ calls' = IF button # None THEN click(button).calls ELSE <<>>
                /\ ret' = [op |-> "mouseUp", win |-> tw, left |-> left,
                           x |-> px, y |-> py, clicked |-> button]
       ELSE /\ mouseWasPressed' = mouseWasPressed
            /\ emitted' = <<>> /\ calls' = <<>>
            /\ ret' = [op |-> "mouseUp", win |-> tw, left |-> left,
                       x |-> px, y |-> py, clicked |-> None]
    /\ drawn' = <<>>
    /\ AfterHandlers(calls', running)
    /\ UNCHANGED <<focusedWidget, inputBuffer>>
    /\ UNCHANGED <<sdl, closures, loopPc, tree, geometry, flags, text, eventHandlers>>

MaxTextLen == 2

\* The loop's test `focusedWidget && dynamic_cast<TextInput*>(focusedWidget)`.
FocusIsTextInput == focusedWidget # None /\ KindOf(focusedWidget) = "TextInput"

\* A slip of case SDL_TEXTINPUT: the window is not rendered after setText.
TextInputEvent_NoRender(tw, ch) ==
    /\ Targets(tw)
    /\ FocusIsTextInput => Len(inputBuffer) < MaxTextLen
    /\ IF FocusIsTextInput
       THEN LET typed == inputBuffer \o <<ch>>
            IN  /\ inputBuffer' = typed
                /\ text' = setText(focusedWidget, typed).text
                /\ emitted' = setText(focusedWidget, typed).emitted
                /\ calls' = setText(focusedWidget, typed).calls
                /\ ret' = [op |-> "textInput", win |-> tw,
                           setText |-> <<[recv |-> focusedWidget, arg |-> typed,
                                          old |-> text[focusedWidget]]>>]
       ELSE /\ UNCHANGED <<inputBuffer, text>>
            /\ emitted' = <<>> /\ calls' = <<>>
            /\ ret' = [op |-> "textInput", win |-> tw, setText |-> <<>>]
    /\ AfterHandlers(calls', running)
    /\ UNCHANGED <<focusedWidget, mouseWasPressed>>
    /\ UNCHANGED <<sdl, closures, loopPc, tree, geometry, flags, eventHandlers>>
    /\ drawn' = <<>>

\* case SDL_TEXTINPUT, the character ch typed: with a TextInput focused the
\* buffer grows, setText runs (and with it the TextChanged handlers), then
\* targetWindow->render().
TextInputEvent(tw, ch) ==
    /\ Targets(tw)
    /\ FocusIsTextInput => Len(inputBuffer) < MaxTextLen
    /\ IF FocusIsTextInput
       THEN LET typed == inputBuffer \o <<ch>>
            IN  /\ inputBuffer' = typed
                /\ text' = setText(focusedWidget, typed).text
                /\ emitted' = setText(focusedWidget, typed).emitted
                /\ calls' = setText(focusedWidget, typed).calls
                /\ ret' = [op |-> "textInput", win |-> tw,
                           setText |-> <<[recv |-> focusedWidget, arg |-> typed,
                                          old |-> text[focusedWidget]]>>]
       ELSE /\ UNCHANGED <<inputBuffer, text>>
            /\ emitted' = <<>> /\ calls' = <<>>
            /\ ret' = [op |-> "textInput", win |-> tw, setText |-> <<>>]
    /\ AfterHandlers(calls', running)
    /\ UNCHANGED <<focusedWidget, mouseWasPressed>>
    /\ UNCHANGED <<sdl, closures, loopPc, tree, geometry, flags, eventHandlers>>
    /\ drawn' = IF FocusIsTextInput THEN render(tw, renderer)' ELSE <<>>

Keys == {"backspace", "return", "other"}

\* The invocations among cs of closures whose body is "clear": a KeyPress
\* handler that empties the text input it is told about,
\* `[](const Event& e) { input->setText(""); }`.
Clearing(cs) == SelectSeq(cs, LAMBDA c : closures[c.handler] = "clear")

\* The handler invocations cs from the k-th on, each invocation of a clearing
\* closure followed by the invocations that its call t.setText("") makes
\* through the TextChanged event before the closure returns.
RECURSIVE WithCleared(_, _, _)
WithCleared(cs, k, t) ==
    IF k > Len(cs) THEN <<>>
    ELSE <<cs[k]>>
           \o (IF closures[cs[k].handler] = "clear"
               THEN setText(t, <<>>).calls ELSE <<>>)
           \o WithCleared(cs, k + 1, t)

\* case SDL_KEYDOWN: backspace on a non-empty buffer ends in setText and
\* targetWindow->render(); return emits KeyPress on the focused widget, whose
\* handlers may empty the text input; the loop does not look at the text
\* after the handlers and leaves inputBuffer as it is.
KeyDown(tw, key) ==
    /\ Targets(tw)
    /\ IF FocusIsTextInput /\ key = "backspace" /\ inputBuffer # <<>>
       THEN LET erased == SubSeq(inputBuffer, 1, Len(inputBuffer) - 1)
            IN  /\ inputBuffer' = erased
                /\ text' = setText(focusedWidget, erased).text
                /\ emitted' = setText(focusedWidget, erased).emitted
                /\ calls' = setText(focusedWidget, erased).calls
                /\ ret' = [op |-> "keyDown", win |-> tw, key |-> key,
                           setText |-> <<[recv |-> focusedWidget, arg |-> erased,
                                          old |-> text[focusedWidget]]>>]
       ELSE IF FocusIsTextInput /\ key = "return"
       THEN LET out == Emitting(focusedWidget,
                          [type |-> "KeyPress", source |-> focusedWidget,
                           data |-> {<<"key", <<"e", "n", "t", "e", "r">>>>}])
                cleared == Clearing(out.calls) # <<>>
            IN  /\ inputBuffer' = inputBuffer
                /\ text' = IF cleared THEN setText(focusedWidget, <<>>).text
                           ELSE text
                /\ emitted' = out.emitted \o
                                 [i \in 1..Len(Clearing(out.calls)) |->
                                     setText(focusedWidget, <<>>).emitted[1]]
                /\ calls' = WithCleared(out.calls, 1, focusedWidget)
                /\ ret' = [op |-> "keyDown", win |-> tw, key |-> key,
                           setText |-> <<>>]
       ELSE /\ UNCHANGED <<inputBuffer, text>>
            /\ emitted' = <<>> /\ calls' = <<>>
            /\ ret' = [op |-> "keyDown", win |-> tw, key |-> key, setText |-> <<>>]
    /\ AfterHandlers(calls', running)
    /\ UNCHANGED <<focusedWidget, mouseWasPressed>>
    /\ UNCHANGED <<sdl, closures, loopPc, tree, geometry, flags, eventHandlers>>
    /\ drawn' = IF FocusIsTextInput /\ key = "backspace" /\ inputBuffer # <<>>
                THEN render(tw, renderer)' ELSE <<>>

\* case SDL_WINDOWEVENT with SDL_WINDOWEVENT_CLOSE: targetWindow->close()
WindowCloseEvent(tw) ==
    /\ Targets(tw)
    /\ LET out == Emitting(tw, [type |-> "WindowClose", source |-> tw, data |-> {}])
       IN  emitted' = out.emitted /\ calls' = out.calls
    /\ drawn' = <<>>
    /\ ret' = [op |-> "windowClose", win |-> tw]
    /\ AfterHandlers(calls', [running EXCEPT ![tw] = FALSE])
    /\ UNCHANGED <<sdl, closures, loopPc, tree, geometry, flags, text, eventHandlers, statics>>

\* case SDL_MOUSEMOTION: targetWindow->render()
MouseMotion(tw) ==
    /\ Targets(tw)
    /\ drawn' = render(tw, renderer)
    /\ emitted' = <<>> /\ calls' = <<>>
    /\ ret' = [op |-> "mouseMotion", win |-> tw]
    /\ UNCHANGED <<sdl, closures, loopPc, tree, geometry, flags, text, eventHandlers,
                   backend, statics>>

\* SDL_QUIT is polled: stopEventLoop(), break out of the poll loop, and the
\* test of the outer while ends runEventLoop.
QuitEvent ==
    /\ loopPc = "polling"
    /\ running' = stopEventLoop(running)
    /\ g_eventLoopRunning' = FALSE
    /\ loopPc' = "out"
    /\ emitted' = <<>> /\ calls' = <<>> /\ drawn' = <<>>
    /\ ret' = [op |-> "quit"]
    /\ UNCHANGED <<sdlWindow, renderer, windows>>
    /\ UNCHANGED <<sdl, closures, tree, geometry, flags, text, eventHandlers, statics>>

\* A slip of the loop: the outer while does not test g_eventLoopRunning.
PollEmpty_IgnoresFlag ==
    /\ loopPc = "polling"
    /\ loopPc' = "polling"
    /\ emitted' = <<>> /\ calls' = <<>> /\ drawn' = <<>>
    /\ ret' = [op |-> "pollEmpty"]
    /\ UNCHANGED <<sdl, closures, tree, geometry, flags, text, eventHandlers,
                   backend, statics>>

\* SDL_PollEvent returns 0: the poll loop ends, SDL_Delay, and the outer
\* while tests g_eventLoopRunning: another iteration, or runEventLoop returns.
PollEmpty ==
    /\ loopPc = "polling"
    /\ loopPc' = IF g_eventLoopRunning THEN "polling" ELSE "out"
    /\ emitted' = <<>> /\ calls' = <<>> /\ drawn' = <<>>
    /\ ret' = [op |-> "pollEmpty"]
    /\ UNCHANGED <<sdl, closures, tree, geometry, flags, text, eventHandlers,
                   backend, statics>>

\* An event that carries the id of no registered window with a backend
\* window is polled: `if (!targetWindow) continue;`
UntargetedEvent ==
    /\ loopPc = "polling"
    /\ emitted' = <<>> /\ calls' = <<>> /\ drawn' = <<>>
    /\ ret' = [op |-> "untargeted"]
    /\ UNCHANGED <<sdl, closures, loopPc, tree, geometry, flags, text, eventHandlers,
                   backend, statics>>

\* A call Window::stopEventLoop() by the application.
StopEventLoop ==
    /\ running' = stopEventLoop(running)
    /\ g_eventLoopRunning' = FALSE
    /\ emitted' = <<>> /\ calls' = <<>> /\ drawn' = <<>>
    /\ ret' = [op |-> "stopEventLoop"]
    /\ UNCHANGED <<sdlWindow, renderer, windows>>
    /\ UNCHANGED <<sdl, closures, loopPc, tree, geometry, flags, text, eventHandlers,
                   statics>>

\* ---------------------------------------------------------------- SDL_PollEvent

\* The body of the poll loop for the polled event e: SDL_QUIT first, then the
\* target window lookup, then the switch on the event type.
Dispatch(e) ==
    IF e.type = "quit" THEN QuitEvent
    ELSE IF ~Targets(e.win) THEN UntargetedEvent
    ELSE CASE e.type = "mouseDown"   -> MouseButtonDown(e.win, e.left, e.x, e.y)
           [] e.type = "mouseUp"     -> MouseButtonUp(e.win, e.left, e.x, e.y)
           [] e.type = "textInput"   -> TextInputEvent(e.win, e.ch)
           [] e.type = "keyDown"     -> KeyDown(e.win, e.key)
           [] e.type = "windowClose" -> WindowCloseEvent(e.win)
           [] e.type = "mouseMotion" -> MouseMotion(e.win)

\* A slip of the poll loop: the newest pending event is handled first.
PollEvent_NewestFirst ==
    /\ loopPc = "polling"
    /\ pending # <<>>
    /\ Dispatch(pending[Len(pending)])
    /\ pending' = SubSeq(pending, 1, Len(pending) - 1)
    /\ UNCHANGED <<posted, pressedSinceUp>>

\* `while (SDL_PollEvent(&event))` with an event pending: the oldest event
\* leaves the queue and the loop body runs on it to its end.
PollEvent ==
    /\ loopPc = "polling"
    /\ pending # <<>>
    /\ Dispatch(Head(pending))
    /\ pending' = Tail(pending)
    /\ UNCHANGED <<posted, pressedSinceUp>>

\* `while (SDL_PollEvent(&event))` with no event pending.
PollNothing ==
    /\ pending = <<>>
    /\ PollEmpty
    /\ UNCHANGED env

MaxPending == 2

MaxPosted == 3

\* The backend queues the event e.
Post(e) ==
    /\ Len(pending) < MaxPending
    /\ posted < MaxPosted
    /\ pending' = Append(pending, e)
    /\ posted' = posted + 1
    /\ UNCHANGED <<program, pressedSinceUp>>

\* ---------------------------------------------------------------- Window::Window, Window::~Window

\* The widgets of the subtree of r, r included.
Subtree(r) == {w \in Universe : r \in AncestorsOrSelf(w)}

\* new Window(title, width, height).  The Widget base is built with id
\* "window", the size is set, the window is pushed on the registry and then
\* initSDL runs: when the backend is not initialised yet, a failing SDL_Init
\* (~sdlOk) or TTF_Init (~ttfOk) throws and the object is never constructed,
\* while a font that cannot be opened (~fontOk) only leaves g_context.font
\* null.  ptr is the value that the uninitialised member sdlWindow reads as.
ConstructWindow(w, ptr, sdlOk, ttfOk, fontOk) ==
    /\ KindOf(w) = "Window" /\ w \notin live /\ w \notin Range(windows)
    /\ windows' = Append(windows, w)
    /\ LET threw == ~g_sdlInitialized /\ (~sdlOk \/ ~ttfOk)
       IN  /\ live' = IF threw THEN live ELSE live \cup {w}
           /\ g_sdlInitialized' = (g_sdlInitialized \/ ~threw)
           /\ font' = IF g_sdlInitialized \/ threw THEN font ELSE fontOk
           /\ ret' = [op |-> "construct", recv |-> w, threw |-> threw,
                      initSDL |-> IF g_sdlInitialized THEN "initialized"
                                  ELSE IF ~sdlOk \/ ~ttfOk THEN "failed"
                                  ELSE IF ~fontOk THEN "no font"
                                  ELSE "ok"]
    /\ id' = [id EXCEPT ![w] = "window"]
    /\ width' = [width EXCEPT ![w] = WindowWidth]
    /\ height' = [height EXCEPT ![w] = WindowHeight]
    /\ running' = [running EXCEPT ![w] = FALSE]
    /\ sdlWindow' = [sdlWindow EXCEPT ![w] = ptr]
    /\ emitted' = <<>> /\ calls' = <<>> /\ drawn' = <<>>
    /\ parent' = [parent EXCEPT ![w] = None]
    /\ children' = [children EXCEPT ![w] = <<>>]
    /\ x' = [x EXCEPT ![w] = 0] /\ y' = [y EXCEPT ![w] = 0]
    /\ visible' = [visible EXCEPT ![w] = TRUE]
    /\ enabled' = [enabled EXCEPT ![w] = TRUE]
    /\ eventHandlers' = [eventHandlers EXCEPT ![w] = [k \in EventKinds |-> <<>>]]
    /\ UNCHANGED <<layout, text>>
    /\ UNCHANGED <<renderer, g_eventLoopRunning, statics, closures, loopPc>>

\* delete w for a window w: the entry leaves the registry, the backend
\* window is destroyed, the last window to go shuts the backend down, and
\* ~Widget destroys the children.
DestroyWindow(w) ==
    /\ KindOf(w) = "Window" /\ w \in live
    /\ LET rest == SelectSeq(windows, LAMBDA v : v # w)
       IN  /\ windows' = rest
           /\ g_sdlInitialized' = (g_sdlInitialized /\ rest # <<>>)
           /\ font' = (font /\ ~(rest = <<>> /\ g_sdlInitialized))
    /\ live' = live \ Subtree(w)
    /\ sdlWindow' = [sdlWindow EXCEPT ![w] = "null"]
    /\ running' = [running EXCEPT ![w] = FALSE]
    /\ emitted' = <<>> /\ calls' = <<>> /\ drawn' = <<>>
    /\ ret' = [op |-> "destroy", recv |-> w]
    /\ parent' = [v \in Universe |-> IF v \in Subtree(w) THEN None ELSE parent[v]]
    /\ children' = [v \in Universe |-> IF v \in Subtree(w) THEN <<>> ELSE children[v]]
    /\ UNCHANGED <<id, geometry, flags, text, eventHandlers>>
    /\ UNCHANGED <<renderer, g_eventLoopRunning, statics, closures, loopPc>>

\* ---------------------------------------------------------------- event dispatch

\* Kinds registered and emitted here; TextChanged and KeyPress are those of
\* the text input specification.
ClickKinds == {"Click", "WindowClose"}

InitEmit == Constructed(Scene, DefaultIds)

StepEmit ==
    \/ \E p \in Parents, c \in Addable : AddTree(p, c)
    \/ \E w \in Universe, k \in ClickKinds : On(w, k)
    \/ \E w \in Buttons, b \in BOOLEAN : SetEnabled(w, b)
    \/ \E b \in Universe : Click(b)
    \/ \E w \in Universe : Close(w)
    \/ \E w \in Universe, k \in ClickKinds : Emit(w, k)

NextEmit == StepEmit /\ UNCHANGED env

SpecEmit == InitEmit /\ [][NextEmit]_vars

\* ---------------------------------------------------------------- hit-testing

MaxMoved == 2
MaxHidden == 1

\* Positions the application passes to setPosition.
Positions == {<<0, 0>>, <<100, 30>>}

\* Points of pointer events.
PointerPoints == {<<0, 0>>, <<200, 60>>}

Moved == {w \in Universe : <<x[w], y[w]>> # <<0, 0>>}
Hidden == {w \in Universe : ~visible[w]}

InitHit == Constructed(Scene, DefaultIds)

StepHit ==
    \/ \E p \in Parents, c \in Addable : AddTree(p, c)
    \/ \E w \in Universe, pos \in Positions :
          /\ pos = <<0, 0>> \/ w \in Moved \/ Cardinality(Moved) < MaxMoved
          /\ SetPosition(w, pos[1], pos[2])
    \/ \E w \in Universe, b \in BOOLEAN :
          /\ b \/ w \in Hidden \/ Cardinality(Hidden) < MaxHidden
          /\ SetVisible(w, b)
    \/ \E w \in Universe : Show(w, TRUE, TRUE)
    \/ EnterEventLoop
    \/ \E tw \in Universe, pt \in PointerPoints :
          MouseButtonDown(tw, TRUE, pt[1], pt[2])
    \/ \E tw \in Universe, pt \in PointerPoints :
          MouseButtonUp(tw, TRUE, pt[1], pt[2])

NextHit == StepHit /\ UNCHANGED env

SpecHit == InitHit /\ [][NextHit]_vars

\* ---------------------------------------------------------------- text input

\* Kinds a text input emits: TextChanged from setText, KeyPress from the loop.
TextKinds == {"TextChanged", "KeyPress"}

\* Characters typed.
Chars == {"a"}

\* Points of pointer-downs: on the text input, and below it.
TextPoints == {<<0, 0>>, <<0, 30>>}

InitText == Constructed({"win", "box", "txt"}, DefaultIds)

StepText ==
    \/ \E p \in Parents, c \in Addable : AddTree(p, c)
    \/ \E w \in Universe, k \in TextKinds : On(w, k)
    \/ \E t \in Universe, s \in Texts : SetText(t, s)
    \/ \E w \in Universe : Show(w, TRUE, TRUE)
    \/ EnterEventLoop
    \/ \E tw \in Universe, pt \in TextPoints :
          MouseButtonDown(tw, TRUE, pt[1], pt[2])
    \/ \E tw \in Universe, ch \in Chars : TextInputEvent(tw, ch)
    \/ \E tw \in Universe, key \in Keys : KeyDown(tw, key)

NextText == StepText /\ UNCHANGED env

SpecText == InitText /\ [][NextText]_vars

\* ---------------------------------------------------------------- windows that come and go

Pointers == {"null", "indeterminate"}

InitRegistry == Constructed({}, DefaultIds)

StepRegistry ==
    \/ \E w \in Universe, ptr \in Pointers, sdlOk, ttfOk, fontOk \in BOOLEAN :
          ConstructWindow(w, ptr, sdlOk, ttfOk, fontOk)
    \/ \E w \in Universe : DestroyWindow(w)
    \/ \E w \in Universe, windowOk, rendererOk \in BOOLEAN : Show(w, windowOk, rendererOk)
    \/ \E w \in Universe : Close(w)
    \/ StopEventLoop

NextRegistry == StepRegistry /\ UNCHANGED env

SpecRegistry == InitRegistry /\ [][NextRegistry]_vars

\* ---------------------------------------------------------------- a window that is shown, closed and rendered

InitWindow == Constructed({"win", "box", "btn", "txt", "lbl"}, DefaultIds)

StepWindow ==
    \/ \E p \in Parents, c \in Addable : AddTree(p, c)
    \/ \E w \in Universe, b \in BOOLEAN :
          /\ Cardinality(IF b THEN Hidden \ {w} ELSE Hidden \cup {w}) <= MaxHidden
          /\ SetVisible(w, b)
    \/ \E w \in Windows : Register(w, "WindowClose", "return")
    \/ \E w \in Windows, windowOk, rendererOk \in BOOLEAN : Show(w, windowOk, rendererOk)
    \/ \E w \in Windows : Close(w)
    \/ \E w \in Universe : Render(w)

NextWindow == StepWindow /\ UNCHANGED env

SpecWindow == InitWindow /\ [][NextWindow]_vars

\* ---------------------------------------------------------------- the event loop and its queue

\* The events the backend queues: pointer events on the button's corner,
\* a close request, a quit, pointer motion, and an event for a window that
\* does not exist.
LoopEvents ==
    {[type |-> "mouseDown", win |-> "win", left |-> TRUE, x |-> 0, y |-> 0],
     [type |-> "mouseUp", win |-> "win", left |-> TRUE, x |-> 0, y |-> 0],
     [type |-> "windowClose", win |-> "win"],
     [type |-> "mouseMotion", win |-> "win"],
     [type |-> "mouseMotion", win |-> "win2"],
     [type |-> "quit"]}

Bodies == {"return", "stop"}

InitLoop == Constructed({"win", "btn"}, DefaultIds)

\* The application thread sets the scene and then blocks in runEventLoop,
\* so its own calls happen while the loop is not running.
Application(A) == loopPc = "out" /\ A /\ UNCHANGED env

StepLoop ==
    \/ \E p \in Windows, c \in Buttons : Application(AddTree(p, c))
    \/ \E w \in Windows : Application(Show(w, TRUE, TRUE))
    \/ \E b \in Buttons, body \in Bodies : Application(Register(b, "Click", body))
    \/ \E w \in Windows, body \in Bodies :
          Application(Register(w, "WindowClose", body))
    \/ Application(EnterEventLoop)
    \/ Application(StopEventLoop)
    \/ \E e \in LoopEvents : Post(e)
    \/ PollEvent
    \/ PollNothing

NextLoop == StepLoop

\* The loop runs: it polls whenever it is in its poll loop.
SpecLoop == InitLoop /\ [][NextLoop]_vars /\ WF_vars(PollEvent) /\ WF_vars(PollNothing)

\* ---------------------------------------------------------------- pointer events

\* Points of pointer events: over every widget placed at the origin, over a
\* text input only, and outside the window.
ClickPoints == {<<0, 0>>, <<150, 0>>, <<900, 0>>}

InitPointer == Constructed(Scene, DefaultIds)

StepPointer ==
    \/ \E p \in Parents, c \in Addable : AddTree(p, c)
    \/ \E w \in Windows : Show(w, TRUE, TRUE)
    \/ EnterEventLoop
    \/ \E tw \in Windows, left \in BOOLEAN, pt \in ClickPoints :
          MouseButtonDown(tw, left, pt[1], pt[2])
    \/ \E tw \in Windows, left \in BOOLEAN, pt \in ClickPoints :
          MouseButtonUp(tw, left, pt[1], pt[2])
    \/ \E tw \in Windows, ch \in Chars : TextInputEvent(tw, ch)
    \/ \E tw \in Windows, key \in Keys : KeyDown(tw, key)
    \/ \E tw \in Windows : MouseMotion(tw)
    \/ \E tw \in Windows : WindowCloseEvent(tw)
    \/ QuitEvent
    \/ \E w \in Windows : loopPc = "out" /\ DestroyWindow(w)

\* pressedSinceUp records the history the click detection depends on: a left
\* pointer-down was handled since the last left pointer-up was.
NextPointer ==
    /\ StepPointer
    /\ pressedSinceUp' =
          IF ret'.op = "mouseDown" /\ ret'.left THEN TRUE
          ELSE IF ret'.op = "mouseUp" /\ ret'.left THEN FALSE
          ELSE pressedSinceUp
    /\ UNCHANGED <<pending, posted>>

SpecPointer == InitPointer /\ [][NextPointer]_vars

\* ---------------------------------------------------------------- closing windows

InitGate == Constructed({"win", "win2"}, DefaultIds)

StepGate ==
    \/ \E w \in Windows : Show(w, TRUE, TRUE)
    \/ \E w \in Windows, body \in Bodies : Register(w, "WindowClose", body)
    \/ \E w \in Windows : Close(w)
    \/ EnterEventLoop
    \/ StopEventLoop
    \/ \E tw \in Windows : WindowCloseEvent(tw)
    \/ QuitEvent
    \/ PollEmpty

NextGate == StepGate /\ UNCHANGED env

SpecGate == InitGate /\ [][NextGate]_vars

\* ---------------------------------------------------------------- two windows, one focus

\* Points of pointer-downs: on a text input at the origin, and outside it.
FocusPoints == {<<0, 0>>, <<0, 100>>}

InitFocus == Constructed({"win", "win2", "txt", "btn"}, DefaultIds)

StepFocus ==
    \/ \E p \in Windows, c \in {"txt", "btn"} : AddTree(p, c)
    \/ \E w \in Windows : Show(w, TRUE, TRUE)
    \/ EnterEventLoop
    \/ \E tw \in Windows, pt \in FocusPoints :
          MouseButtonDown(tw, TRUE, pt[1], pt[2])
    \/ \E tw \in Windows, ch \in Chars : TextInputEvent(tw, ch)
    \/ \E tw \in Windows, key \in Keys : KeyDown(tw, key)

NextFocus == StepFocus /\ UNCHANGED env

SpecFocus == InitFocus /\ [][NextFocus]_vars

\* ---------------------------------------------------------------- the input buffer

\* What a KeyPress handler registered here does: return, or empty the input.
KeyPressBodies == {"return", "clear"}

InitBuffer == Constructed({"win", "txt"}, DefaultIds)

StepBuffer ==
    \/ \E p \in Windows : AddTree(p, "txt")
    \/ \E w \in {"win", "txt"}, body \in KeyPressBodies : Register(w, "KeyPress", body)
    \/ \E w \in {"win", "txt"} : On(w, "TextChanged")
    \/ \E w \in Windows : Show(w, TRUE, TRUE)
    \/ EnterEventLoop
    \/ \E tw \in Windows, pt \in FocusPoints :
          MouseButtonDown(tw, TRUE, pt[1], pt[2])
    \/ \E tw \in Windows, ch \in Chars : TextInputEvent(tw, ch)
    \/ \E tw \in Windows, key \in Keys : KeyDown(tw, key)

NextBuffer == StepBuffer /\ UNCHANGED env

SpecBuffer == InitBuffer /\ [][NextBuffer]_vars

\* ---------------------------------------------------------------- a container that is laid out

MaxResized == 2

Sizes == {<<20, 20>>, <<10, 10>>}

Spacings == {0, 5}

Paddings == {10}

Layouts ==
    {NoLayout} \cup [kind : {"Vertical", "Horizontal"},
                     spacing : Spacings, padding : Paddings]

Resized == {w \in Universe : <<width[w], height[w]>> # <<CtorWidth(w), CtorHeight(w)>>}

InitLayout == Constructed({"box", "btn", "txt", "lbl"}, DefaultIds)

StepLayout ==
    \/ \E p \in Parents, c \in Addable : AddTree(p, c)
    \/ \E w \in Universe \ Parents, size \in Sizes :
          /\ Cardinality(Resized \cup {w}) <= MaxResized
          /\ SetSize(w, size[1], size[2])
    \/ \E w \in Universe \ Parents, b \in BOOLEAN :
          /\ Cardinality(IF b THEN Hidden \ {w} ELSE Hidden \cup {w}) <= MaxHidden
          /\ SetVisible(w, b)
    \/ \E c \in Universe, lay \in Layouts : SetLayout(c, lay)

NextLayout == StepLayout /\ UNCHANGED env

SpecLayout == InitLayout /\ [][NextLayout]_vars

\* ---------------------------------------------------------------- tree and find

InitTree ==
    \E ids \in [Universe -> Ids \cup {"window"}] :
        /\ \A w \in Scene : ids[w] \in CtorIds(w)
        /\ \A w \in Universe \ Scene : ids[w] = DefaultIds[w]
        /\ Constructed(Scene, ids)

StepTree ==
    \/ \E p \in Universe, c \in Addable : AddTree(p, c)
    \/ \E w \in Universe, i \in FindArgs : Find(w, i)

NextTree == StepTree /\ UNCHANGED env

SpecTree == InitTree /\ [][NextTree]_vars

\* ---------------------------------------------------------------- add alone

InitAdd == Constructed(Scene, DefaultIds)

NextAdd == (\E p \in Universe, c \in Addable : Add(p, c)) /\ UNCHANGED env

SpecAdd == InitAdd /\ [][NextAdd]_vars

\* ---------------------------------------------------------------- C9

Occurrences(s, c) == Cardinality({i \in 1..Len(s) : s[i] = c})

\* Every widget has at most one parent, is once in that parent's child list
\* and in no other child list.
OwnershipConsistent ==
    /\ \A w \in live, p \in live :
          w \in Range(children[p]) => parent[w] = p /\ Occurrences(children[p], w) = 1
    /\ \A w \in live :
          parent[w] # None => w \in Range(children[parent[w]])

\* Following parent links from w reaches a parentless widget without meeting
\* a widget twice.
RECURSIVE ReachesRoot(_, _)
ReachesRoot(w, seen) ==
    IF w \in seen THEN FALSE
    ELSE IF parent[w] = None THEN TRUE
    ELSE ReachesRoot(parent[w], seen \cup {w})

Acyclic == \A w \in live : ReachesRoot(w, {})

IsPrefix(s, t) == Len(s) <= Len(t) /\ \A i \in 1..Len(s) : s[i] = t[i]

\* A parent link, once set, keeps its value.
ParentStable == \A w \in live : parent[w] # None => parent'[w] = parent[w]

\* Child lists only grow, and only at the end.
ChildListsGrowAtEnd == \A p \in live : IsPrefix(children[p], children'[p])

\* The step added c to p, and c was neither p nor an ancestor of p.
AddedOutsideChain ==
    \E p \in live, c \in live :
        /\ children'[p] = Append(children[p], c)
        /\ c \notin AncestorsOrSelf(p)

\* C9 as stated: after any sequence of add operations, each adding a widget
\* that no parent owns yet, the parent links are consistent with the child
\* lists and lead from every widget to a parentless root without a repeat.
C9_AsStated == OwnershipConsistent /\ Acyclic

\* C9 amended: ownership is consistent after any such sequence of adds, parent
\* links never change, child lists keep insertion order, and an add whose
\* argument is neither the receiver nor one of its ancestors keeps the parent
\* links free of cycles.
C9_TreeAfterAdds ==
    /\ []OwnershipConsistent
    /\ [][ParentStable /\ ChildListsGrowAtEnd
          /\ ((Acyclic /\ AddedOutsideChain) => Acyclic')]_vars

\* A parent with two children that itself has a parent, built without a cycle.
C9_Witness ==
    /\ Acyclic
    /\ \E p \in live : Len(children[p]) = 2 /\ parent[p] # None

\* ---------------------------------------------------------------- C8

\* The widgets of w's subtree in depth-first pre-order.
RECURSIVE PreOrder(_), PreOrderOf(_, _)
PreOrder(w) == <<w>> \o PreOrderOf(children[w], 1)

PreOrderOf(cs, k) ==
    IF k > Len(cs) THEN <<>> ELSE PreOrder(cs[k]) \o PreOrderOf(cs, k + 1)

MinOf(S) == CHOOSE m \in S : \A n \in S : m <= n

\* The first widget of w's pre-order whose id is i, or None.
FirstInPreOrder(w, i) ==
    LET order == PreOrder(w)
        hits == {k \in 1..Len(order) : id[order[k]] = i}
    IN  IF hits = {} THEN None ELSE order[MinOf(hits)]

TreeFields == <<tree, geometry, flags, text, eventHandlers, backend, statics>>

\* C8: find(id) returns the pre-order-first widget of the receiver's subtree
\* whose id equals the argument, nullptr exactly when there is none; it
\* changes no field of any widget, and a repeated call returns the same
\* widget.
C8_FindPreOrderFirst ==
    /\ [](ret.op = "find" => ret.result = FirstInPreOrder(ret.recv, ret.arg))
    /\ [][ret'.op = "find" =>
            /\ UNCHANGED TreeFields
            /\ (ret.op = "find" /\ ret.recv = ret'.recv /\ ret.arg = ret'.arg
                   => ret'.result = ret.result)]_vars

\* find returned a widget below the receiver although a later widget of the
\* pre-order, in another child's subtree, has the same id.
C8_Witness ==
    /\ ret.op = "find"
    /\ ret.result \notin {None, ret.recv}
    /\ Len(children[ret.recv]) = 2
    /\ parent[ret.result] = children[ret.recv][1]
    /\ id[children[ret.recv][2]] = ret.arg

\* ---------------------------------------------------------------- C1

\* w, its parent, its grandparent, ... up to the root of w's tree.
RECURSIVE ChainFrom(_)
ChainFrom(w) == IF w = None THEN <<>> ELSE <<w>> \o ChainFrom(parent[w])

\* How many handlers of kind k the first n widgets of chain hold.
RECURSIVE HandlersBefore(_, _, _)
HandlersBefore(chain, k, n) ==
    IF n = 0 THEN 0
    ELSE HandlersBefore(chain, k, n - 1) + Len(eventHandlers[chain[n]][k])

\* calls are the handlers of the event's kind along chain: those of chain[1]
\* in registration order, then those of chain[2], ..., each called with event.
CallsAlong(chain, event) ==
    LET k == event.type
    IN  /\ Len(calls) = HandlersBefore(chain, k, Len(chain))
        /\ \A j \in 1..Len(chain) :
              \A i \in 1..Len(eventHandlers[chain[j]][k]) :
                 calls[HandlersBefore(chain, k, j - 1) + i] =
                     [handler |-> eventHandlers[chain[j]][k][i], event |-> event]

\* Handler h was called exactly n times.
CalledTimes(h, n) ==
    Cardinality({i \in 1..Len(calls) : calls[i].handler = h}) = n

\* Every handler of kind k on a widget of chain was called once, every other
\* registered handler not at all.
OnceEachAlong(chain, k) ==
    \A w \in live, kk \in EventKinds :
        \A i \in 1..Len(eventHandlers[w][kk]) :
            CalledTimes(eventHandlers[w][kk][i],
                        IF kk = k /\ w \in Range(chain) THEN 1 ELSE 0)

\* C1: an event of a kind other than WindowClose emitted on W calls W's
\* handlers of that kind in registration order, then those of each ancestor
\* in turn up to the root, each exactly once and with the event as emitted;
\* no other handler is called.
C1_BubblesAlongChain ==
    \A n \in 1..Len(emitted) :
        emitted[n].event.type # "WindowClose" =>
            /\ Len(emitted) = 1
            /\ CallsAlong(ChainFrom(emitted[n].on), emitted[n].event)
            /\ OnceEachAlong(ChainFrom(emitted[n].on), emitted[n].event.type)

\* A Click on a leaf two levels below the root, with a handler on the leaf
\* and one on the root and none in between: leaf first, root second.
C1_Witness ==
    /\ Len(emitted) = 1 /\ emitted[1].event.type = "Click"
    /\ Len(ChainFrom(emitted[1].on)) = 3
    /\ Len(calls) = 2
    /\ calls[1].handler \in Range(eventHandlers[emitted[1].on]["Click"])
    /\ calls[2].handler \in
          Range(eventHandlers[ChainFrom(emitted[1].on)[3]]["Click"])

\* ---------------------------------------------------------------- C2

\* C2: a WindowClose event emitted on a widget calls that widget's own
\* WindowClose handlers in registration order and no handler of an ancestor.
C2_WindowCloseStaysPut ==
    \A n \in 1..Len(emitted) :
        emitted[n].event.type = "WindowClose" =>
            /\ Len(emitted) = 1
            /\ CallsAlong(<<emitted[n].on>>, emitted[n].event)
            /\ OnceEachAlong(<<emitted[n].on>>, "WindowClose")

\* WindowClose emitted on a widget that has a parent, both holding a
\* WindowClose handler: only the widget's own handler was called.
C2_Witness ==
    /\ Len(emitted) = 1 /\ emitted[1].event.type = "WindowClose"
    /\ parent[emitted[1].on] # None
    /\ eventHandlers[parent[emitted[1].on]]["WindowClose"] # <<>>
    /\ Len(calls) = 1
    /\ calls[1].handler \in Range(eventHandlers[emitted[1].on]["WindowClose"])

\* ---------------------------------------------------------------- C6

ClickEvent(b) == [type |-> "Click", source |-> b, data |-> {}]

\* C6: click() on a disabled button emits nothing, calls no handler and
\* changes no field; on an enabled button it emits one Click event with the
\* button as source and an empty payload, which bubbles to the root.
C6_ClickNeedsEnabled ==
    /\ [](ret.op = "click" =>
            IF enabled[ret.recv]
            THEN /\ emitted = <<[on |-> ret.recv, event |-> ClickEvent(ret.recv)]>>
                 /\ CallsAlong(ChainFrom(ret.recv), ClickEvent(ret.recv))
            ELSE emitted = <<>> /\ calls = <<>>)
    /\ [][ret'.op = "click" /\ ~enabled[ret'.recv] => UNCHANGED TreeFields]_vars

\* click() on a disabled button while the button and its parent hold Click
\* handlers.
C6_Witness ==
    /\ ret.op = "click"
    /\ ~enabled[ret.recv]
    /\ eventHandlers[ret.recv]["Click"] # <<>>
    /\ parent[ret.recv] # None
    /\ eventHandlers[parent[ret.recv]]["Click"] # <<>>
    /\ calls = <<>>

\* ---------------------------------------------------------------- C3

\* Points the hit-test is examined at: corners and edges of the boxes the
\* widgets have at the positions the application uses, and points past the
\* window.
Probes == {<<0, 0>>, <<99, 29>>, <<100, 0>>, <<0, 30>>, <<100, 30>>, <<199, 59>>,
           <<200, 60>>, <<399, 89>>, <<800, 0>>, <<0, 600>>}

\* The widgets of r's subtree, r included.
SubtreeSet(r) == {w \in live : r \in AncestorsOrSelf(w)}

RECURSIVE SumOver(_, _)
SumOver(chain, field) ==
    IF chain = <<>> THEN 0 ELSE field[Head(chain)] + SumOver(Tail(chain), field)

\* The absolute position: the relative positions of w and of all its
\* ancestors up to the root of the tree, added up.
AbsX(w) == SumOver(ChainFrom(w), x)
AbsY(w) == SumOver(ChainFrom(w), y)

Contains(w, px, py) ==
    /\ AbsX(w) <= px /\ px < AbsX(w) + width[w]
    /\ AbsY(w) <= py /\ py < AbsY(w) + height[w]

\* w and every ancestor of w up to r are visible.
VisibleUpTo(w, r) ==
    \A a \in AncestorsOrSelf(w) : r \in AncestorsOrSelf(a) => visible[a]

\* The widgets of r's subtree that are visible along their chain up to r and
\* contain the point.
Candidates(r, px, py) ==
    {w \in SubtreeSet(r) : VisibleUpTo(w, r) /\ Contains(w, px, py)}

\* C3: findWidgetAt(root, x, y) returns a widget that is visible along its
\* chain up to root and contains the point in its absolute box, below which
\* no such widget exists; it returns nullptr exactly when root's subtree
\* holds no such widget.
C3_HitIsDeepestVisible ==
    \A r \in live, pt \in Probes :
        LET res == findWidgetAt(r, pt[1], pt[2])
            cand == Candidates(r, pt[1], pt[2])
        IN  /\ res = None <=> cand = {}
            /\ res # None =>
                  /\ res \in cand
                  /\ \A c \in cand : c # res => c \notin SubtreeSet(res)

\* A pointer-down focused a text input that lies two levels below the window
\* at offsets of its own and of its parent, outside its parent's box.
C3_Witness ==
    /\ ret.op = "mouseDown" /\ ret.left
    /\ focusedWidget # None
    /\ parent[focusedWidget] # None
    /\ parent[parent[focusedWidget]] = ret.win
    /\ x[focusedWidget] # 0 /\ x[parent[focusedWidget]] # 0
    /\ findWidgetAt(ret.win, ret.x, ret.y) = focusedWidget
    /\ ~Contains(parent[focusedWidget], ret.x, ret.y)

\* ---------------------------------------------------------------- C4

MaxOf(S) == CHOOSE m \in S : \A n \in S : m >= n

\* C4: searched from a visible widget, a match in the subtree of a later
\* child wins over every match in the subtree of an earlier child and over
\* the widget itself; of two visible children that both contain the point
\* the earlier one, and all of its subtree, is never returned.
C4_LaterSiblingWins ==
    \A r \in live, pt \in Probes :
        LET px == pt[1]
            py == pt[2]
            res == findWidgetAt(r, px, py)
            cs == children[r]
            hot == {k \in 1..Len(cs) : Candidates(cs[k], px, py) # {}}
        IN  visible[r] =>
              /\ hot # {} => res \in SubtreeSet(cs[MaxOf(hot)])
              /\ \A i \in 1..Len(cs), j \in 1..Len(cs) :
                    (/\ i < j
                     /\ visible[cs[i]] /\ Contains(cs[i], px, py)
                     /\ visible[cs[j]] /\ Contains(cs[j], px, py))
                    => res \notin SubtreeSet(cs[i]) \cup {r, None}

\* Two overlapping children of the window, the earlier one a text input with
\* the pointer on it: the pointer-down went to the later child's subtree and
\* focused nothing.
C4_Witness ==
    /\ ret.op = "mouseDown" /\ ret.left
    /\ focusedWidget = None
    /\ Len(children[ret.win]) = 2
    /\ KindOf(children[ret.win][1]) = "TextInput"
    /\ \A k \in 1..2 : visible[children[ret.win][k]]
                         /\ Contains(children[ret.win][k], ret.x, ret.y)
    /\ children[children[ret.win][2]] # <<>>
    /\ findWidgetAt(ret.win, ret.x, ret.y) \in Range(children[children[ret.win][2]])

\* ---------------------------------------------------------------- C5

\* w lies in the subtree of some invisible widget.
InHiddenSubtree(w) == \E h \in AncestorsOrSelf(w) : ~visible[h]

\* C5: no invisible widget of the searched tree, and no descendant of one,
\* is returned by findWidgetAt, whatever the descendants' flags and boxes;
\* a left pointer-down focuses no widget of an invisible subtree and a
\* pointer-up clicks none.
C5_HiddenSubtreeNeverHit ==
    /\ \A r \in live, pt \in Probes :
          \A h \in live :
             ~visible[h] /\ (h \in SubtreeSet(r) \/ KindOf(r) = "Window")
                => findWidgetAt(r, pt[1], pt[2]) \notin SubtreeSet(h)
    /\ ret.op = "mouseDown" /\ ret.left /\ focusedWidget # None
          => ~InHiddenSubtree(focusedWidget)
    /\ ret.op = "mouseUp" /\ ret.clicked # None
          => ~InHiddenSubtree(ret.clicked)

\* A left pointer-down on a visible text input whose parent is invisible:
\* nothing was focused.
C5_Witness ==
    /\ ret.op = "mouseDown" /\ ret.left
    /\ focusedWidget = None
    /\ \E t \in live :
          /\ KindOf(t) = "TextInput" /\ visible[t]
          /\ parent[t] # None /\ ~visible[parent[t]]
          /\ parent[parent[t]] = ret.win /\ visible[ret.win]
          /\ Contains(t, ret.x, ret.y)

\* ---------------------------------------------------------------- C7

TextChangedEvent(t, s) ==
    [type |-> "TextChanged", source |-> t, data |-> {<<"text", s>>}]

\* The operation that just ran called setText.
CalledSetText == ret.op \in {"setText", "textInput", "keyDown"} /\ ret.setText # <<>>

\* C7: every call setText(t), by the application or by the input loop,
\* leaves t as the text and emits exactly one TextChanged event with the text
\* input as source and payload {"text": t}, whether or not t is the text
\* stored before.
C7_SetTextAlwaysEmits ==
    CalledSetText =>
        LET call == ret.setText[1]
        IN  /\ Len(ret.setText) = 1
            /\ text[call.recv] = call.arg
            /\ emitted = <<[on |-> call.recv,
                            event |-> TextChangedEvent(call.recv, call.arg)]>>
            /\ CallsAlong(ChainFrom(call.recv),
                          TextChangedEvent(call.recv, call.arg))

\* setText with the text already stored, on a text input whose parent holds a
\* TextChanged handler: the handler was called.
C7_Witness ==
    /\ ret.op = "setText"
    /\ ret.setText[1].arg = ret.setText[1].old
    /\ ret.setText[1].arg # <<>>
    /\ Len(calls) = 1
    /\ parent[ret.setText[1].recv] # None
    /\ calls[1].handler \in
          Range(eventHandlers[parent[ret.setText[1].recv]]["TextChanged"])

\* ---------------------------------------------------------------- C10

\* The room taken by the children before child i along the stacking axis.
RECURSIVE StackedBefore(_, _, _, _)
StackedBefore(cs, i, extent, spacing) ==
    IF i <= 1 THEN 0
    ELSE StackedBefore(cs, i - 1, extent, spacing) + extent[cs[i - 1]] + spacing

\* C10: after a VerticalLayout(spacing, padding) was applied to a container,
\* every child, visible or not, has x = padding and y = padding plus the sum
\* of height + spacing over the children before it; HorizontalLayout is the
\* same with x and y, width and height swapped.  Children of heights
\* 20, 30, 10 laid out with spacing 5 and padding 10 get y = 10, 35, 70.
C10_LayoutStacksChildren ==
    (ret.op = "setLayout" /\ ret.layout.kind # "none") =>
        LET cs == children[ret.recv]
            lay == ret.layout
        IN  /\ \A i \in 1..Len(cs) :
                  IF lay.kind = "Vertical"
                  THEN /\ x[cs[i]] = lay.padding
                       /\ y[cs[i]] = lay.padding
                                     + StackedBefore(cs, i, height, lay.spacing)
                  ELSE /\ y[cs[i]] = lay.padding
                       /\ x[cs[i]] = lay.padding
                                     + StackedBefore(cs, i, width, lay.spacing)
            /\ ( /\ lay = [kind |-> "Vertical", spacing |-> 5, padding |-> 10]
                 /\ [i \in 1..Len(cs) |-> height[cs[i]]] = <<20, 30, 10>> )
               => [i \in 1..Len(cs) |-> y[cs[i]]] = <<10, 35, 70>>

\* A vertical layout with spacing 5 and padding 10 was applied to children of
\* heights 20, 30, 10 of which one is invisible.
C10_Witness ==
    /\ ret.op = "setLayout"
    /\ ret.layout = [kind |-> "Vertical", spacing |-> 5, padding |-> 10]
    /\ LET cs == children[ret.recv]
       IN  /\ [i \in 1..Len(cs) |-> height[cs[i]]] = <<20, 30, 10>>
           /\ \E i \in 1..2 : ~visible[cs[i]]
           /\ [i \in 1..Len(cs) |-> y[cs[i]]] = <<10, 35, 70>>

\* ---------------------------------------------------------------- C11

\* C11: the layout stored by setLayout is applied at that call only: a step
\* that adds a child or resizes a widget leaves the position of every widget
\* as it was, so placed children stay where the layout put them and a child
\* added later keeps the position it had before the add.
C11_LayoutNotReactive ==
    [][ (children' # children \/ width' # width \/ height' # height)
            => (x' = x /\ y' = y) ]_vars

\* A container that holds a layout has a first child placed by the layout
\* and a last child, added after setLayout, still where its constructor put it.
C11_Witness ==
    \E c \in live :
        /\ layout[c].kind # "none"
        /\ Len(children[c]) >= 2
        /\ x[children[c][1]] = layout[c].padding
        /\ y[children[c][1]] = layout[c].padding
        /\ x[children[c][Len(children[c])]] = 0
        /\ y[children[c][Len(children[c])]] = 0
        /\ ret = NoOp

\* ---------------------------------------------------------------- C16

\* The windows that are constructed and not destroyed.
LiveWindows == {w \in live : KindOf(w) = "Window"}

\* C16: after any constructions, aborted or not, and destructions of windows
\* the registry Window::windows holds exactly the live windows, each once.
C16_RegistryIsLiveWindows ==
    /\ Range(windows) = LiveWindows
    /\ Len(windows) = Cardinality(Range(windows))

\* ---------------------------------------------------------------- C17

\* C17: a construction during which the backend fails to initialise or finds
\* no font aborts; a show during which the window or the renderer cannot be
\* created aborts and leaves the window stopped, and no window is ever
\* running without a backend window and a render surface.
C17_InitFailureIsFatal ==
    /\ (ret.op = "construct" /\ ret.initSDL \in {"failed", "no font"}) => ret.threw
    /\ (ret.op = "show" /\ ret.threw) => ~running[ret.recv]
    /\ \A w \in LiveWindows : running[w] => (sdlWindow[w] = "window" /\ renderer)

\* ---------------------------------------------------------------- C12

\* The WindowClose event that w.close() emits.
WindowCloseOf(w) == [type |-> "WindowClose", source |-> w, data |-> {}]

\* C12: a show that returns leaves the window running with its backend
\* window and render surface created; a close leaves it stopped and emits one
\* WindowClose event that names the window and reaches only the window's own
\* handlers.  Hence the window runs iff the last of the calls was a show.
C12_ShowCloseStateMachine ==
    /\ (ret.op = "show" /\ ~ret.threw) =>
          /\ running[ret.recv]
          /\ sdlWindow[ret.recv] = "window"
          /\ renderer
    /\ ret.op = "close" =>
          /\ ~running[ret.recv]
          /\ emitted = <<[on |-> ret.recv, event |-> WindowCloseOf(ret.recv)]>>
          /\ calls = RunHandlers(ret.recv, WindowCloseOf(ret.recv))

\* ---------------------------------------------------------------- C18

\* C18: render() on a widget of any kind whose visible flag is false makes no
\* backend call, for itself or for a child.
C18_InvisibleRendersNothing ==
    (ret.op = "render" /\ ~visible[ret.recv]) => drawn = <<>>

\* ---------------------------------------------------------------- C13

\* The running operation called Window::stopEventLoop(), itself or through
\* a handler.
Stopped == ret.op \in {"stopEventLoop", "quit"} \/ Stops(calls)

\* runEventLoop is in its poll loop and the process-wide flag is cleared.
StoppedInLoop == loopPc = "polling" /\ ~g_eventLoopRunning

\* C13: stopEventLoop clears the process-wide flag and the running flag of
\* every registered window.  Once the flag is cleared while runEventLoop
\* executes, the flag stays cleared, the end of the current poll iteration
\* ends runEventLoop instead of starting another iteration, and runEventLoop
\* does return.
C13_StopEndsLoop ==
    /\ [](Stopped => (~g_eventLoopRunning /\ \A w \in Range(windows) : ~running[w]))
    /\ [][StoppedInLoop =>
            /\ loopPc' = "polling" => ~g_eventLoopRunning'
            /\ (pending = <<>> /\ program' # program) => loopPc' = "out"]_vars
    /\ (StoppedInLoop ~> (loopPc = "out"))

\* A Click handler called stopEventLoop while the loop was handling a
\* pointer-up, with another event still pending in this poll iteration.
C13_Witness ==
    /\ StoppedInLoop
    /\ ret.op = "mouseUp" /\ Stops(calls)
    /\ pending # <<>>
    /\ \E w \in LiveWindows : sdlWindow[w] = "window"

\* ---------------------------------------------------------------- C15

\* The record that the loop body leaves for the polled event e.
Handled(e) ==
    IF e.type = "quit" THEN ret'.op = "quit"
    ELSE IF ~Targets(e.win) THEN ret'.op = "untargeted"
    ELSE /\ ret'.op = e.type /\ ret'.win = e.win
         /\ e.type \in {"mouseDown", "mouseUp"} =>
                (ret'.left = e.left /\ ret'.x = e.x /\ ret'.y = e.y)
         /\ (e.type = "mouseUp" /\ e.left /\ mouseWasPressed) =>
                LET hit == findWidgetAt(e.win, e.x, e.y)
                IN  IF hit # None /\ KindOf(hit) = "Button"
                    THEN ret'.clicked = hit /\ calls' = click(hit).calls
                    ELSE ret'.clicked = None /\ calls' = <<>>
         /\ e.type = "windowClose" => calls' = RunHandlers(e.win, WindowCloseOf(e.win))
         /\ e.type = "mouseMotion" => drawn' = render(e.win, renderer)

\* C15: the loop takes the pending events oldest first, one per step, and the
\* step that takes an event runs that event's whole handling (hit test,
\* handlers, re-render); a poll iteration ends only when no event is pending
\* or a quit event was taken.
C15_EventsInOrder ==
    [][ /\ (pending' # pending /\ posted' = posted) =>
              (pending' = Tail(pending) /\ Handled(Head(pending)))
        /\ (loopPc = "polling" /\ loopPc' = "out") =>
              (pending = <<>> \/ ret'.op = "quit") ]_vars

\* The loop has handled a pointer-up that clicked a button whose handler
\* ran, while a different event is still waiting in the queue.
C15_Witness ==
    /\ ret.op = "mouseUp" /\ ret.clicked # None /\ calls # <<>>
    /\ Len(pending) = 1 /\ pending[1].type # "mouseUp"
    /\ posted = MaxPosted

\* The texts that typing can produce.
Typed == UNION {[1..n -> Chars] : n \in 0..MaxTextLen}

\* The step is the handling of a character-input event, or of a backspace key
\* event that found pending text.
TextMutation ==
    \/ ret'.op = "textInput"
    \/ ret'.op = "keyDown" /\ ret'.key = "backspace" /\ inputBuffer # <<>>

\* C14: a character-input event, or a backspace key event with pending text,
\* handled for window W while a TextInput is focused makes exactly one setText
\* call on the focused TextInput, which emits exactly one TextChanged event
\* and runs its handlers, and then renders W in the state the handlers left;
\* no other widget's text changes.  With no widget focused, character and key
\* events change no text, emit no event, call no handler and render nothing.
C14_TextEventsReachFocus ==
    [][ /\ (TextMutation /\ FocusIsTextInput) =>
              /\ Len(ret'.setText) = 1
              /\ ret'.setText[1].recv = focusedWidget
              /\ text'[focusedWidget] = ret'.setText[1].arg
              /\ \A w \in live \ {focusedWidget} : text'[w] = text[w]
              /\ emitted' = <<[on |-> focusedWidget,
                               event |-> TextChangedEvent(focusedWidget,
                                                          ret'.setText[1].arg)]>>
              /\ \E s \in Typed :
                    /\ ret'.setText[1].arg = s
                    /\ CallsAlong(ChainFrom(focusedWidget),
                                  TextChangedEvent(focusedWidget, s))'
              /\ \E tw \in Windows :
                    ret'.win = tw /\ drawn' = render(tw, renderer)'
              /\ renderer' => drawn' # <<>>
        /\ (ret'.op \in {"textInput", "keyDown"} /\ focusedWidget = None) =>
              /\ text' = text
              /\ emitted' = <<>> /\ calls' = <<>> /\ drawn' = <<>> ]_vars

\* A character typed into a focused text input whose TextChanged handler was
\* called, after which the window drew the text input with its text.
C14_Witness ==
    /\ ret.op = "textInput"
    /\ ret.setText # <<>>
    /\ ret.setText[1].recv = focusedWidget
    /\ Len(emitted) = 1
    /\ calls # <<>>
    /\ [call |-> "clear", widget |-> ret.win] \in Range(drawn)
    /\ [call |-> "text", widget |-> focusedWidget] \in Range(drawn)

\* The focus is no widget, or a TextInput that exists.
FocusIsNoneOrTextInput ==
    \/ focusedWidget = None
    \/ focusedWidget \in live /\ KindOf(focusedWidget) = "TextInput"

\* What a left pointer-down makes the focus: the widget hit if it is a
\* TextInput, no widget otherwise; every other step leaves the focus alone.
FocusFollowsLeftDown ==
    [][ IF ret'.op = "mouseDown" /\ ret'.left
        THEN \E tw \in Windows, pt \in ClickPoints :
                /\ ret'.win = tw /\ ret'.x = pt[1] /\ ret'.y = pt[2]
                /\ LET hit == findWidgetAt(tw, pt[1], pt[2])
                   IN  focusedWidget' =
                          IF hit # None /\ KindOf(hit) = "TextInput"
                          THEN hit ELSE None
        ELSE focusedWidget' = focusedWidget ]_vars

\* C19: after a left pointer-down at (x, y) for window W the focused widget
\* is findWidgetAt(W, x, y) if that is a TextInput and no widget otherwise;
\* pointer-downs of other buttons and all other steps leave the focus
\* unchanged; and in every reachable state the focus is no widget or a
\* TextInput.
C19_FocusIsHitTextInput == FocusFollowsLeftDown /\ []FocusIsNoneOrTextInput

\* C20: a left pointer-up at (x, y) for window W calls click() on
\* findWidgetAt(W, x, y), taken at the pointer-up coordinates, exactly when
\* that widget is a Button and a left pointer-down was handled since the
\* previous left pointer-up; any other pointer-up calls click() on nothing.
\* An enabled button so clicked emits its one Click event.
C20_ClickOnLeftUp ==
    [][ ret'.op = "mouseUp" =>
          \E tw \in Windows, pt \in ClickPoints :
             /\ ret'.win = tw /\ ret'.x = pt[1] /\ ret'.y = pt[2]
             /\ LET hit == findWidgetAt(tw, pt[1], pt[2])
                IN  /\ ret'.clicked =
                          IF /\ ret'.left /\ pressedSinceUp
                             /\ hit # None /\ KindOf(hit) = "Button"
                          THEN hit ELSE None
                    /\ IF ret'.clicked # None /\ enabled[hit]
                       THEN /\ Len(emitted') = 1
                            /\ emitted'[1].on = hit
                            /\ emitted'[1].event.type = "Click"
                       ELSE emitted' = <<>> ]_vars

\* A click on the button by a left pointer-up, the left pointer-down before it
\* having hit the text input instead (which is why that holds the focus).
C20_Witness ==
    /\ ret.op = "mouseUp" /\ ret.left
    /\ ret.clicked # None /\ KindOf(ret.clicked) = "Button"
    /\ focusedWidget # None /\ focusedWidget # ret.clicked
    /\ Len(emitted) = 1
    /\ ~pressedSinceUp

\* The step called Window::stopEventLoop(): the application did, or a handler
\* that the step ran did, or the loop did on a quit event.
StopCalled == ret'.op \in {"stopEventLoop", "quit"} \/ Stops(calls)'

\* C21: only the process-wide flag gates the loop.  The flag is cleared by
\* no step but a call of stopEventLoop() or a quit event; a close() that runs
\* no such handler, called by the application or for a window-close event,
\* leaves the flag and the loop as they are, whichever windows are still
\* running; and runEventLoop returns only with the flag cleared, going on to
\* the next iteration while it is set.
C21_OnlyGlobalFlagGatesLoop ==
    [][ /\ (g_eventLoopRunning /\ ~g_eventLoopRunning') => StopCalled
        /\ (ret'.op \in {"close", "windowClose"} /\ ~StopCalled) =>
              /\ g_eventLoopRunning' = g_eventLoopRunning
              /\ loopPc' = loopPc
        /\ (loopPc = "polling" /\ loopPc' = "out") => ~g_eventLoopRunning'
        /\ (loopPc = "polling" /\ g_eventLoopRunning /\ ret'.op = "pollEmpty") =>
              loopPc' = "polling" ]_vars

\* Both registered windows were shown and neither is running, one of them
\* holds a WindowClose handler, and the loop has just gone round once more.
C21_Witness ==
    /\ ret.op = "pollEmpty" /\ loopPc = "polling" /\ g_eventLoopRunning
    /\ Len(windows) = 2
    /\ \A w \in Range(windows) : sdlWindow[w] = "window" /\ ~running[w]
    /\ \E w \in Range(windows) : eventHandlers[w]["WindowClose"] # <<>>

\* C22: a character or key input event reported for window W changes the
\* text only of a TextInput in W's widget tree, so that the window rendered
\* after the change, W, is the one that owns the changed TextInput: focus
\* gained in one window is not used for input reported for another.
C22_InputStaysInItsWindow ==
    [][ ret'.op \in {"textInput", "keyDown"} =>
          \E tw \in Windows :
             /\ ret'.win = tw
             /\ \A w \in live : text'[w] # text[w] => tw \in AncestorsOrSelf(w) ]_vars

\* The operation that just ran is the handling of an input event.
InputEventHandled ==
    ret.op \in {"mouseDown", "mouseUp", "textInput", "keyDown", "mouseMotion",
                "windowClose"}

\* C23: whenever a TextInput is focused and the loop has finished handling
\* an input event, inputBuffer equals the text stored in the focused
\* TextInput, also when a handler called setText on it; hence a character
\* typed next is appended to the widget's current text and a backspace
\* removes the last character of the widget's current text.
C23_BufferIsFocusedText ==
    /\ [](InputEventHandled /\ FocusIsTextInput =>
             inputBuffer = text[focusedWidget])
    /\ [][ /\ (ret'.op = "textInput" /\ FocusIsTextInput) =>
                \E ch \in Chars :
                   text'[focusedWidget] = text[focusedWidget] \o <<ch>>
           /\ (/\ ret'.op = "keyDown" /\ ret'.key = "backspace"
               /\ FocusIsTextInput /\ text[focusedWidget] # <<>>) =>
                text'[focusedWidget] =
                   SubSeq(text[focusedWidget], 1, Len(text[focusedWidget]) - 1)
         ]_vars

====
